---- MODULE Spec2Model ----
(***************************************************************************)
(* Model of the watershed monitor (internal/watershed/monitor.go and its   *)
(* two entry points cmd/lambda and cmd/local): the alert-cooldown ledger   *)
(* Monitor.lastEmailSent, its persistence in one S3 object, the evaluator  *)
(* checkAndNotify and the monitoring cycle RunOnce.                        *)
(*                                                                         *)
(* Time is the wall clock in hours.  A float64 is a record [nan, v]: v an  *)
(* integer, nan the IEEE not-a-number that compares false with everything. *)
(***************************************************************************)
EXTENDS Integers, Sequences, FiniteSets, TLC

\* ---------------------------------------------------------------- bounds

\* How many of the seven configured measurements a cycle processes.
NumMeasurements == 2
\* The clock advances in steps of TickHours hours, up to MaxTime.
TickHours == 12
MaxTime == 12
\* At most MaxSamples samples in one time-series response.
MaxSamples == 2

\* ---------------------------------------------------------------- float64

F(x) == [nan |-> FALSE, v |-> x]
NaN == [nan |-> TRUE, v |-> 0]

\* a >= b and a < b on float64: false as soon as one side is NaN
FGeq(a, b) == ~a.nan /\ ~b.nan /\ a.v >= b.v
FLt(a, b) == ~a.nan /\ ~b.nan /\ a.v < b.v

\* ---------------------------------------------------------------- names

\* RunOnce's list, in its order
AllMeasurements ==
    << "Water depth", "Temperature", "Electrical conductivity", "Turbidity",
       "Battery voltage", "Percent full scale", "Relative humidity" >>

desiredMeasurements == SubSeq(AllMeasurements, 1, NumMeasurements)

Desired == {desiredMeasurements[i] : i \in 1..Len(desiredMeasurements)}

\* A name the data source may list that RunOnce does not ask for.
OtherName == "Dissolved oxygen"

\* strings.ReplaceAll(strings.ToUpper(name), " ", "_")
EnvName(name) ==
    CASE name = "Water depth" -> "WATER_DEPTH"
      [] name = "Temperature" -> "TEMPERATURE"
      [] name = "Electrical conductivity" -> "ELECTRICAL_CONDUCTIVITY"
      [] name = "Turbidity" -> "TURBIDITY"
      [] name = "Battery voltage" -> "BATTERY_VOLTAGE"
      [] name = "Percent full scale" -> "PERCENT_FULL_SCALE"
      [] name = "Relative humidity" -> "RELATIVE_HUMIDITY"
      [] name = "Dissolved oxygen" -> "DISSOLVED_OXYGEN"
      [] OTHER -> "UNKNOWN"

\* ---------------------------------------------------------------- state

VARIABLES
    now,            \* the wall clock (time.Now), in hours
    env,            \* the process environment (os.Getenv): key -> string
    lastEmailSent,  \* Monitor.lastEmailSent: measurement name -> time
    bucket,         \* the S3 bucket: object key -> JSON document
    pc,             \* where RunOnce stands
    measurements,   \* RunOnce's catalog: the names fetchResultID returned
    idx,            \* RunOnce's position in desiredMeasurements
    samplesLeft,    \* samples fetchTimeSeriesData has still to hand on
    successCount,   \* RunOnce's successCount
    outcome,        \* the last checkAndNotify call of the running sample loop
    report,         \* what the steps of the current (or last) cycle returned
    lastDelivered,  \* history: name -> time of the last delivered email
    deliveries,     \* history: the << name, time >> of every delivered email
    ioFailed        \* history: some loadState or saveState returned an error

vars ==
    << now, env, lastEmailSent, bucket, pc, measurements, idx,
       samplesLeft, successCount, outcome, report, lastDelivered, deliveries,
       ioFailed >>

\* ---------------------------------------------------------------- environment

\* fmt.Sprintf("%s_MAX", measurement): the key is the pair of its two parts
Key(prefix, suffix) == << prefix, suffix >>

EMAIL_RECIPIENT == Key("EMAIL", "RECIPIENT")

\* os.Getenv: the empty string for a variable that is not set
Getenv(key) == IF key \in DOMAIN env THEN env[key] ELSE ""

\* strconv.ParseFloat(s, 64) on the strings the environments below hold
ParseFloat(s) ==
    CASE s = "27" -> [ok |-> TRUE, val |-> F(27)]
      [] s = "200" -> [ok |-> TRUE, val |-> F(200)]
      [] s = "NaN" -> [ok |-> TRUE, val |-> NaN]
      [] OTHER -> [ok |-> FALSE, val |-> F(0)]

NoEnv == [k \in {} |-> ""]

SetVar(e, key, val) ==
    [k \in DOMAIN e \cup {key} |-> IF k = key THEN val ELSE e[k]]

\* The environments a process is started with.
ThresholdEnvs ==
    { NoEnv,
      SetVar(NoEnv, Key("TEMPERATURE", "MAX"), "27"),
      SetVar(NoEnv, Key("TEMPERATURE", "MAX"), "abc"),
      SetVar(NoEnv, Key("TEMPERATURE", "MIN"), "NaN"),
      SetVar(NoEnv, Key("TURBIDITY", "MAX"), "200") }

EnvConfigs ==
    ThresholdEnvs \cup {SetVar(e, EMAIL_RECIPIENT, "ops@example.org") : e \in ThresholdEnvs}

\* The environments of the processes that run whole cycles: the thresholds
\* are the defaults, the recipient is set or not.
CycleEnvs == {NoEnv, SetVar(NoEnv, EMAIL_RECIPIENT, "ops@example.org")}

\* ---------------------------------------------------------------- thresholds

ThresholdConfig(max, min) == [max |-> max, min |-> min]

\* the defaults map of getThresholdFromEnv; a missing key reads as the zero value
defaults(measurement) ==
    CASE measurement = "WATER_DEPTH" -> ThresholdConfig(F(1000), F(0))
      [] measurement = "TEMPERATURE" -> ThresholdConfig(F(26), F(0 - 20))
      [] measurement = "ELECTRICAL_CONDUCTIVITY" -> ThresholdConfig(F(600), F(0))
      [] measurement = "TURBIDITY" -> ThresholdConfig(F(150), F(0))
      [] measurement = "BATTERY_VOLTAGE" -> ThresholdConfig(F(5), F(0))
      [] measurement = "PERCENT_FULL_SCALE" -> ThresholdConfig(F(101), F(0))
      [] measurement = "RELATIVE_HUMIDITY" -> ThresholdConfig(F(100), F(0))
      [] OTHER -> ThresholdConfig(F(0), F(0))

\* Faulty variant: the error of ParseFloat is not looked at.
Override_Unchecked(str, dflt) ==
    IF str # "" THEN ParseFloat(str).val ELSE dflt

\* one bound: the override when set and parsable, the default otherwise
Override(str, dflt) ==
    IF str # "" /\ ParseFloat(str).ok THEN ParseFloat(str).val ELSE dflt

getThresholdFromEnv(measurement) ==
    LET maxStr == Getenv(Key(measurement, "MAX"))
        minStr == Getenv(Key(measurement, "MIN"))
        default_config == defaults(measurement)
    IN  ThresholdConfig(Override(maxStr, default_config.max),
                        Override(minStr, default_config.min))

\* Faulty variant: max is taken as inclusive (value > max).
OutOfRange_Strict(value, threshold) ==
    (~value.nan /\ ~threshold.max.nan /\ value.v > threshold.max.v)
      \/ FLt(value, threshold.min)

\* the condition of checkAndNotify's outer if
OutOfRange(value, threshold) ==
    FGeq(value, threshold.max) \/ FLt(value, threshold.min)

\* The values a sample of a measurement takes: around its two default
\* bounds, and above its default max.
SampleValues(name) ==
    LET d == defaults(EnvName(name))
    IN  {F(d.min.v - 1), F(d.min.v), F(d.max.v - 1), F(d.max.v),
         F(d.max.v + 30)}

\* The values the samples of a cycle take: the default max of the
\* measurement (out of range) and the value below it (in range).
CycleValues(name) ==
    LET d == defaults(EnvName(name))
    IN  {F(d.max.v - 1), F(d.max.v)}

CycleSamples == UNION {CycleValues(n) : n \in Desired}

\* ---------------------------------------------------------------- ledger

EmptyLedger == [n \in {} |-> 0]

\* m.lastEmailSent[name], with the "exists" flag of the map read
getLastEmailTime(ledger, name) ==
    IF name \in DOMAIN ledger
    THEN [lastSent |-> ledger[name], exists |-> TRUE]
    ELSE [lastSent |-> 0, exists |-> FALSE]

\* Faulty variant: the map is made anew for the entry.
updateLastEmailTime_Replace(ledger, name, t) == [n \in {name} |-> t]

\* m.lastEmailSent[name] = t
updateLastEmailTime(ledger, name, t) ==
    [n \in DOMAIN ledger \cup {name} |-> IF n = name THEN t ELSE ledger[n]]

\* the cooldown window of checkAndNotify, in hours
CooldownHours == 12

\* Faulty variants: the comparison turned round; the window closed at 12 h.
InCooldown_Inverted(timeSince) == timeSince > CooldownHours
InCooldown_Inclusive(timeSince) == timeSince <= CooldownHours

\* timeSince < 12*time.Hour
InCooldown(timeSince) == timeSince < CooldownHours

\* ---------------------------------------------------------------- JSON

\* The object key of loadState and saveState.
StateKey == "last_email_times.json"

\* time.Time's MarshalJSON writes a calendar date and a time of day: here
\* the pair << day, hour of the day >>.
HoursPerDay == 24
\* Faulty variant: the time of day is not written.
FormatTime_DateOnly(t) == << t \div HoursPerDay, 0 >>
FormatTime(t) == << t \div HoursPerDay, t % HoursPerDay >>

\* time.Time's UnmarshalJSON: an error on what is no date and time of day
ParseTime(s) ==
    IF s[1] >= 0 /\ s[2] \in 0..(HoursPerDay - 1)
    THEN [ok |-> TRUE, t |-> s[1] * HoursPerDay + s[2]]
    ELSE [ok |-> FALSE, t |-> 0]

\* A member value no time parses from.
Garbage == << 0, 99 >>

\* encoding/json writes the keys of a map in sorted order
SortedNames ==
    << "Battery voltage", "Electrical conductivity", "Percent full scale",
       "Relative humidity", "Temperature", "Turbidity", "Water depth" >>

\* Faulty variant: an object without members is written.
Marshal_Empty(ledger) == [syntaxOK |-> TRUE, members |-> << >>]

\* json.Marshal(m.lastEmailSent): one object, a member per entry
Marshal(ledger) ==
    LET keys == SelectSeq(SortedNames, LAMBDA n : n \in DOMAIN ledger)
    IN  [syntaxOK |-> TRUE,
         members |-> [i \in 1..Len(keys) |->
                        [k |-> keys[i], v |-> FormatTime(ledger[keys[i]])]]]

\* The decoder stores the members into the map one after the other and
\* stops at the first value that is no time: the members before it stay.
RECURSIVE DecodeMembers(_, _)
DecodeMembers(members, acc) ==
    IF members = << >>
    THEN [err |-> FALSE, m |-> acc]
    ELSE LET p == ParseTime(Head(members).v)
         IN  IF ~p.ok
             THEN [err |-> TRUE, m |-> acc]
             ELSE DecodeMembers(Tail(members),
                                updateLastEmailTime(acc, Head(members).k, p.t))

\* decoder.Decode(&m.lastEmailSent) into the map `into`: a document that is
\* no JSON value is refused before anything is stored.
Decode(doc, into) ==
    IF ~doc.syntaxOK
    THEN [err |-> TRUE, m |-> into]
    ELSE DecodeMembers(doc.members, into)

\* ---------------------------------------------------------------- loadState

\* The map loadState decodes into: the one it has just made.
ResetBeforeDecode(ledger) == EmptyLedger

\* Faulty variant: the map is made anew before GetObject is called.
loadState_ResetFirst(ledger, get) ==
    IF get = "error"
    THEN [err |-> "load", ledger |-> EmptyLedger]
    ELSE IF StateKey \notin DOMAIN bucket
         THEN [err |-> "nil", ledger |-> EmptyLedger]
         ELSE LET d == Decode(bucket[StateKey], EmptyLedger)
              IN  [err |-> IF d.err THEN "decode" ELSE "nil", ledger |-> d.m]

\* Faulty variant: the object is fetched and not decoded.
loadState_SkipDecode(ledger, get) ==
    IF get = "error"
    THEN [err |-> "load", ledger |-> ledger]
    ELSE [err |-> "nil", ledger |-> EmptyLedger]

\* Faulty variant: NoSuchKey leaves the map as it is.
loadState_KeepOnNoSuchKey(ledger, get) ==
    IF get = "error"
    THEN [err |-> "load", ledger |-> ledger]
    ELSE IF StateKey \notin DOMAIN bucket
         THEN [err |-> "nil", ledger |-> ledger]
         ELSE LET d == Decode(bucket[StateKey], EmptyLedger)
              IN  [err |-> IF d.err THEN "decode" ELSE "nil", ledger |-> d.m]

\* loadState. get is the answer of GetObject: "error" for a failed request,
\* else the object, or NoSuchKey when the bucket has none under StateKey.
\* err is "nil", or names the error returned: "load" ("error loading state
\* from S3") or "decode" ("error decoding state").
loadState(ledger, get) ==
    IF get = "error"
    THEN [err |-> "load", ledger |-> ledger]
    ELSE IF StateKey \notin DOMAIN bucket
         THEN [err |-> "nil", ledger |-> EmptyLedger]
         ELSE LET d == Decode(bucket[StateKey], ResetBeforeDecode(ledger))
              IN  [err |-> IF d.err THEN "decode" ELSE "nil", ledger |-> d.m]

\* ---------------------------------------------------------------- saveState

\* Faulty variant: the empty map is written too.
SkipSave_Never(ledger) == FALSE

\* len(m.lastEmailSent) == 0: nothing is written
SkipSave(ledger) == DOMAIN ledger = {}

\* saveState. put is the answer of PutObject.
saveState(ledger, put) ==
    IF SkipSave(ledger)
    THEN [res |-> "skipped", bucket |-> bucket]
    ELSE IF put = "error"
         THEN [res |-> "error", bucket |-> bucket]
         ELSE [res |-> "ok",
               bucket |-> [k \in DOMAIN bucket \cup {StateKey} |->
                             IF k = StateKey THEN Marshal(ledger) ELSE bucket[k]]]

\* ---------------------------------------------------------------- checkAndNotify

\* observedAt: the timestamp the call was given.  prev: the result of the
\* call before it in the same sample loop.
NoOutcome ==
    [name |-> "", value |-> F(0), observedAt |-> 0, result |-> "None",
     send |-> "none", prev |-> "None"]

\* Faulty variant: the time is recorded although the send failed.
checkAndNotify_RecordOnFail(ledger, name, value, timestamp, sendOk, d) ==
    LET threshold == getThresholdFromEnv(EnvName(name))
        last == getLastEmailTime(ledger, name)
        quiet(result) ==
            [result |-> result, send |-> "none", ledger |-> ledger, elapsed |-> 0]
    IN  IF ~OutOfRange(value, threshold)
        THEN quiet("NotNeeded")
        ELSE IF last.exists /\ InCooldown(now - last.lastSent)
        THEN quiet("Suppressed")
        ELSE IF Getenv(EMAIL_RECIPIENT) = ""
        THEN quiet("Suppressed")
        ELSE [result |-> IF sendOk THEN "Sent" ELSE "SendFailed",
              send |-> IF sendOk THEN "ok" ELSE "fail",
              ledger |-> updateLastEmailTime(ledger, name, now + d),
              elapsed |-> d]

\* Faulty variant: the time is recorded although there is no recipient.
checkAndNotify_RecordOnNoRecipient(ledger, name, value, timestamp, sendOk, d) ==
    LET threshold == getThresholdFromEnv(EnvName(name))
        last == getLastEmailTime(ledger, name)
        quiet(result) ==
            [result |-> result, send |-> "none", ledger |-> ledger, elapsed |-> 0]
    IN  IF ~OutOfRange(value, threshold)
        THEN quiet("NotNeeded")
        ELSE IF last.exists /\ InCooldown(now - last.lastSent)
        THEN quiet("Suppressed")
        ELSE IF Getenv(EMAIL_RECIPIENT) = ""
        THEN [result |-> "Suppressed", send |-> "none",
              ledger |-> updateLastEmailTime(ledger, name, now),
              elapsed |-> 0]
        ELSE IF ~sendOk
        THEN [result |-> "SendFailed", send |-> "fail", ledger |-> ledger,
              elapsed |-> d]
        ELSE [result |-> "Sent", send |-> "ok",
              ledger |-> updateLastEmailTime(ledger, name, now + d),
              elapsed |-> d]

\* Faulty variant: the time of the reading is recorded.
checkAndNotify_RecordObserved(ledger, name, value, timestamp, sendOk, d) ==
    LET threshold == getThresholdFromEnv(EnvName(name))
        last == getLastEmailTime(ledger, name)
        quiet(result) ==
            [result |-> result, send |-> "none", ledger |-> ledger, elapsed |-> 0]
    IN  IF ~OutOfRange(value, threshold)
        THEN quiet("NotNeeded")
        ELSE IF last.exists /\ InCooldown(now - last.lastSent)
        THEN quiet("Suppressed")
        ELSE IF Getenv(EMAIL_RECIPIENT) = ""
        THEN quiet("Suppressed")
        ELSE IF ~sendOk
        THEN [result |-> "SendFailed", send |-> "fail", ledger |-> ledger,
              elapsed |-> d]
        ELSE [result |-> "Sent", send |-> "ok",
              ledger |-> updateLastEmailTime(ledger, name, timestamp),
              elapsed |-> d]

\* checkAndNotify(name, value, timestamp) on the map `ledger` at time now.
\* timestamp, the time the reading was observed, goes into the text of the
\* email and nowhere else.  sendOk is what sendEmailSES answers if it is
\* called, and d the hours the call takes.  The code returns nothing:
\* result names the return it leaves by (NotNeeded: the outer if is false),
\* send what became of sendEmailSES.
checkAndNotify(ledger, name, value, timestamp, sendOk, d) ==
    LET threshold == getThresholdFromEnv(EnvName(name))
        last == getLastEmailTime(ledger, name)
        quiet(result) ==
            [result |-> result, send |-> "none", ledger |-> ledger, elapsed |-> 0]
    IN  IF ~OutOfRange(value, threshold)
        THEN quiet("NotNeeded")
        ELSE IF last.exists /\ InCooldown(now - last.lastSent)
        THEN quiet("Suppressed")
        ELSE IF Getenv(EMAIL_RECIPIENT) = ""
        THEN quiet("Suppressed")
        ELSE IF ~sendOk
        THEN [result |-> "SendFailed", send |-> "fail", ledger |-> ledger,
              elapsed |-> d]
        ELSE [result |-> "Sent", send |-> "ok",
              ledger |-> updateLastEmailTime(ledger, name, now + d),
              elapsed |-> d]

\* The names checkAndNotify is called with when it is called on its own.
EvalNames == {"Temperature", "Turbidity", OtherName}

\* ---------------------------------------------------------------- RunOnce

\* monitor: whether the cycle runs on a Monitor NewMonitor has just made
\* ("new") or on the one the loop of cmd/local has kept ("kept").
\* fetchErrors: how many fetchTimeSeriesData calls of the cycle returned an
\* error; sendFailed: whether a sendEmailSES call of the cycle did.
Report(monitor) ==
    [monitor |-> monitor, load |-> "none", catalog |-> "none",
     fetchErrors |-> 0, sendFailed |-> FALSE, save |-> "none", ret |-> "none"]

TypeOK ==
    /\ now \in 0..MaxTime
    /\ env \in EnvConfigs
    /\ DOMAIN lastEmailSent \subseteq Desired \cup EvalNames
    /\ \A n \in DOMAIN lastEmailSent : lastEmailSent[n] \in 0..MaxTime
    /\ DOMAIN bucket \subseteq {StateKey}
    /\ pc \in {"idle", "load", "catalog", "loop", "samples", "save", "eval"}
    /\ measurements \subseteq Desired \cup {OtherName}
    /\ idx \in 0..(Len(desiredMeasurements) + 1)
    /\ samplesLeft \in 0..MaxSamples
    /\ successCount \in 0..Len(desiredMeasurements)
    /\ outcome.result \in {"None", "NotNeeded", "Suppressed", "Sent", "SendFailed"}
    /\ report.ret \in {"none", "nil", "error"}
    /\ report.fetchErrors \in 0..Len(desiredMeasurements)
    /\ report.sendFailed \in BOOLEAN
    /\ DOMAIN lastDelivered \subseteq Desired \cup EvalNames
    /\ deliveries \subseteq (Desired \cup EvalNames) \X (0..MaxTime)
    /\ ioFailed \in BOOLEAN

Init ==
    /\ now = 0
    /\ env \in CycleEnvs
    /\ lastEmailSent = EmptyLedger
    /\ bucket = [k \in {} |-> 0]
    /\ pc = "idle"
    /\ measurements = {}
    /\ idx = 0
    /\ samplesLeft = 0
    /\ successCount = 0
    /\ outcome = NoOutcome
    /\ report = Report("new")
    /\ lastDelivered = EmptyLedger
    /\ deliveries = {}
    /\ ioFailed = FALSE

\* RunOnce is entered: its locals are fresh
EnterRunOnce(monitor) ==
    /\ pc' = "load"
    /\ measurements' = {}
    /\ idx' = 0
    /\ samplesLeft' = 0
    /\ successCount' = 0
    /\ report' = Report(monitor)

\* A process starts with environment e: NewMonitor, then RunOnce
\* (handleRequest of cmd/lambda, main of cmd/local).
StartProcess(e) ==
    /\ pc = "idle"
    /\ env' = e
    /\ lastEmailSent' = EmptyLedger
    /\ EnterRunOnce("new")
    /\ UNCHANGED << now, bucket, outcome, lastDelivered, deliveries,
                    ioFailed >>

\* cmd/local -continuous: the loop calls RunOnce again on the same Monitor
ContinuousLoop ==
    /\ pc = "idle"
    /\ report.ret # "none"
    /\ EnterRunOnce("kept")
    /\ UNCHANGED << now, env, lastEmailSent, bucket, outcome, lastDelivered,
                    deliveries, ioFailed >>

\* RunOnce: m.loadState(), an error is only printed
LoadState(get) ==
    /\ pc = "load"
    /\ LET r == loadState(lastEmailSent, get)
       IN  /\ lastEmailSent' = r.ledger
           /\ report' = [report EXCEPT !.load = r.err]
           /\ ioFailed' = (ioFailed \/ r.err # "nil")
    /\ pc' = "catalog"
    /\ UNCHANGED << now, env, bucket, measurements, idx, samplesLeft,
                    successCount, outcome, lastDelivered, deliveries >>

\* The catalogs fetchResultID returns.
Catalogs ==
    {Desired \cup {OtherName}} \cup {(Desired \cup {OtherName}) \ {n} : n \in Desired}

\* Faulty variant: the error is printed and RunOnce goes on to saveState.
FetchResultIDError_GoOn ==
    /\ pc = "catalog"
    /\ report' = [report EXCEPT !.catalog = "error"]
    /\ idx' = Len(desiredMeasurements) + 1
    /\ pc' = "save"
    /\ UNCHANGED << now, env, lastEmailSent, bucket, measurements,
                    samplesLeft, successCount, outcome, lastDelivered,
                    deliveries, ioFailed >>

\* RunOnce: m.fetchResultID() fails, RunOnce returns the error
FetchResultIDError ==
    /\ pc = "catalog"
    /\ report' = [report EXCEPT !.catalog = "error", !.ret = "error"]
    /\ pc' = "idle"
    /\ UNCHANGED << now, env, lastEmailSent, bucket, measurements, idx,
                    samplesLeft, successCount, outcome, lastDelivered,
                    deliveries, ioFailed >>

\* RunOnce: m.fetchResultID() returns the catalog, the loop starts
FetchResultID(catalog) ==
    /\ pc = "catalog"
    /\ measurements' = catalog
    /\ report' = [report EXCEPT !.catalog = "ok"]
    /\ idx' = 1
    /\ pc' = "loop"
    /\ UNCHANGED << now, env, lastEmailSent, bucket, samplesLeft,
                    successCount, outcome, lastDelivered, deliveries,
                    ioFailed >>

\* Faulty variant: the loop passes over a name.
NextName_Skip ==
    /\ idx' = idx + 2
    /\ pc' = IF idx + 2 > Len(desiredMeasurements) THEN "save" ELSE "loop"

\* the loop of RunOnce goes on to the next name, or on to saveState
NextName ==
    /\ idx' = idx + 1
    /\ pc' = IF idx + 1 > Len(desiredMeasurements) THEN "save" ELSE "loop"

\* RunOnce: the name is not in the catalog
NotInCatalog ==
    /\ pc = "loop"
    /\ desiredMeasurements[idx] \notin measurements
    /\ NextName
    /\ UNCHANGED << now, env, lastEmailSent, bucket, measurements,
                    samplesLeft, successCount, outcome, report,
                    lastDelivered, deliveries, ioFailed >>

\* Faulty variant: the loop is left at the first error (break for continue).
FetchTimeSeriesError_Break ==
    /\ pc = "loop"
    /\ desiredMeasurements[idx] \in measurements
    /\ report' = [report EXCEPT !.fetchErrors = @ + 1]
    /\ idx' = Len(desiredMeasurements) + 1
    /\ pc' = "save"
    /\ UNCHANGED << now, env, lastEmailSent, bucket, measurements,
                    samplesLeft, successCount, outcome, lastDelivered,
                    deliveries, ioFailed >>

\* RunOnce: fetchTimeSeriesData returns an error (request or parsing)
FetchTimeSeriesError ==
    /\ pc = "loop"
    /\ desiredMeasurements[idx] \in measurements
    /\ report' = [report EXCEPT !.fetchErrors = @ + 1]
    /\ NextName
    /\ UNCHANGED << now, env, lastEmailSent, bucket, measurements,
                    samplesLeft, successCount, outcome, lastDelivered,
                    deliveries, ioFailed >>

\* RunOnce: fetchTimeSeriesData gets n samples; with none it returns nil
FetchTimeSeriesData(n) ==
    /\ pc = "loop"
    /\ desiredMeasurements[idx] \in measurements
    /\ IF n = 0
       THEN /\ successCount' = successCount + 1
            /\ NextName
            /\ UNCHANGED samplesLeft
       ELSE /\ samplesLeft' = n
            /\ pc' = "samples"
            /\ UNCHANGED << idx, successCount >>
    /\ UNCHANGED << now, env, lastEmailSent, bucket, measurements, outcome,
                    report, lastDelivered, deliveries, ioFailed >>

\* The timestamps of the readings a request made at time t brings back:
\* they were observed before it, here in the hour before.
ObservedTimes(t) == {t - 1}

\* One call m.checkAndNotify(name, value, timestamp): what it does to the
\* Monitor, to the clock and to the histories.
Notify(name, value, timestamp, sendOk, d) ==
    LET r == checkAndNotify(lastEmailSent, name, value, timestamp, sendOk, d)
    IN  /\ now + r.elapsed <= MaxTime
        /\ now' = now + r.elapsed
        /\ lastEmailSent' = r.ledger
        /\ outcome' = [name |-> name, value |-> value,
                       observedAt |-> timestamp, result |-> r.result,
                       send |-> r.send,
                       prev |-> IF outcome.name = name THEN outcome.result
                                ELSE "None"]
        /\ lastDelivered' =
             IF r.send = "ok"
             THEN updateLastEmailTime(lastDelivered, name, now + r.elapsed)
             ELSE lastDelivered
        /\ deliveries' =
             IF r.send = "ok"
             THEN deliveries \cup {<< name, now + r.elapsed >>}
             ELSE deliveries

\* fetchTimeSeriesData: m.checkAndNotify(name, value, utcTime) on one sample
CheckAndNotify(value, sendOk, d) ==
    /\ pc = "samples"
    /\ samplesLeft > 0
    /\ value \in CycleValues(desiredMeasurements[idx])
    /\ \E utcTime \in ObservedTimes(now) :
         Notify(desiredMeasurements[idx], value, utcTime, sendOk, d)
    /\ report' = [report EXCEPT !.sendFailed = @ \/ outcome'.send = "fail"]
    /\ samplesLeft' = samplesLeft - 1
    /\ UNCHANGED << env, bucket, pc, measurements, idx, successCount,
                    ioFailed >>

\* fetchTimeSeriesData: the samples are through, it returns nil
ReturnNil ==
    /\ pc = "samples"
    /\ samplesLeft = 0
    /\ successCount' = successCount + 1
    /\ NextName
    /\ outcome' = NoOutcome
    /\ UNCHANGED << now, env, lastEmailSent, bucket, measurements,
                    samplesLeft, report, lastDelivered, deliveries,
                    ioFailed >>

\* Faulty variant: RunOnce returns the error of saveState.
SaveState_Propagate(put) ==
    /\ pc = "save"
    /\ LET r == saveState(lastEmailSent, put)
       IN  /\ bucket' = r.bucket
           /\ report' = [report EXCEPT !.save = r.res,
                           !.ret = IF r.res = "error" THEN "error" ELSE "nil"]
           /\ ioFailed' = (ioFailed \/ r.res = "error")
    /\ pc' = "idle"
    /\ measurements' = {}
    /\ idx' = 0
    /\ UNCHANGED << now, env, lastEmailSent, samplesLeft, successCount,
                    outcome, lastDelivered, deliveries >>

\* RunOnce: m.saveState(), an error is only printed; RunOnce returns nil
SaveState(put) ==
    /\ pc = "save"
    /\ LET r == saveState(lastEmailSent, put)
       IN  /\ bucket' = r.bucket
           /\ report' = [report EXCEPT !.save = r.res, !.ret = "nil"]
           /\ ioFailed' = (ioFailed \/ r.res = "error")
    /\ pc' = "idle"
    /\ measurements' = {}
    /\ idx' = 0
    /\ UNCHANGED << now, env, lastEmailSent, samplesLeft, successCount,
                    outcome, lastDelivered, deliveries >>

\* ---------------------------------------------------------------- the world

\* Time passes between two cycles.
Tick ==
    /\ pc = "idle"
    /\ now + TickHours <= MaxTime
    /\ now' = now + TickHours
    /\ UNCHANGED << env, lastEmailSent, bucket, pc, measurements, idx,
                    samplesLeft, successCount, outcome, report,
                    lastDelivered, deliveries, ioFailed >>

Intact(doc) ==
    /\ doc.syntaxOK
    /\ \A i \in 1..Len(doc.members) : ParseTime(doc.members[i].v).ok

\* The stored object is damaged between two cycles: cut short (i = 0), or
\* the value of its i-th member overwritten.
CorruptBlob(i) ==
    /\ pc = "idle"
    /\ StateKey \in DOMAIN bucket
    /\ Intact(bucket[StateKey])
    /\ i \in 0..Len(bucket[StateKey].members)
    /\ bucket' =
         [bucket EXCEPT ![StateKey] =
            IF i = 0
            THEN [@ EXCEPT !.syntaxOK = FALSE]
            ELSE [@ EXCEPT !.members[i].v = Garbage]]
    /\ UNCHANGED << now, env, lastEmailSent, pc, measurements, idx,
                    samplesLeft, successCount, outcome, report,
                    lastDelivered, deliveries, ioFailed >>

Next ==
    \/ \E e \in CycleEnvs : StartProcess(e)
    \/ ContinuousLoop
    \/ \E get \in {"ok", "error"} : LoadState(get)
    \/ FetchResultIDError
    \/ \E catalog \in Catalogs : FetchResultID(catalog)
    \/ NotInCatalog
    \/ FetchTimeSeriesError
    \/ \E n \in 0..MaxSamples : FetchTimeSeriesData(n)
    \/ \E value \in CycleSamples : \E sendOk \in BOOLEAN : \E d \in {0, TickHours} :
         CheckAndNotify(value, sendOk, d)
    \/ ReturnNil
    \/ \E put \in {"ok", "error"} : SaveState(put)
    \/ Tick
    \/ \E i \in 0..NumMeasurements : CorruptBlob(i)

Spec == Init /\ [][Next]_vars

\* ---------------------------------------------------------------- checkAndNotify alone

\* checkAndNotify called on its own, as a unit test calls it: on a Monitor
\* NewMonitor has made, in a process with any of the environments.
InitEval ==
    /\ now = 0
    /\ env \in EnvConfigs
    /\ lastEmailSent = EmptyLedger
    /\ bucket = [k \in {} |-> 0]
    /\ pc = "eval"
    /\ measurements = {}
    /\ idx = 0
    /\ samplesLeft = 0
    /\ successCount = 0
    /\ outcome = NoOutcome
    /\ report = Report("new")
    /\ lastDelivered = EmptyLedger
    /\ deliveries = {}
    /\ ioFailed = FALSE

Evaluate(name, value, sendOk, d) ==
    /\ pc = "eval"
    /\ value \in SampleValues(name)
    /\ \E timestamp \in ObservedTimes(now) :
         Notify(name, value, timestamp, sendOk, d)
    /\ UNCHANGED << env, bucket, pc, measurements, idx, samplesLeft,
                    successCount, report, ioFailed >>

\* Time passes between two calls.
TickEval ==
    /\ pc = "eval"
    /\ now + TickHours <= MaxTime
    /\ now' = now + TickHours
    /\ UNCHANGED << env, lastEmailSent, bucket, pc, measurements, idx,
                    samplesLeft, successCount, outcome, report,
                    lastDelivered, deliveries, ioFailed >>

NextEval ==
    \/ \E name \in EvalNames : \E value \in SampleValues(name) :
         \E sendOk \in BOOLEAN : \E d \in {0, TickHours} :
           Evaluate(name, value, sendOk, d)
    \/ TickEval

SpecEval == InitEval /\ [][NextEval]_vars

\* ---------------------------------------------------------------- vocabulary of the claims

\* The step is one checkAndNotify call of a sample loop of RunOnce.
IsNotifyStep == pc = "samples" /\ samplesLeft' = samplesLeft - 1

\* The name the sample loop is on.
CurName == desiredMeasurements[idx]

\* The threshold the code resolves for a name.
Thr(name) == getThresholdFromEnv(EnvName(name))

\* The step is the loadState call, the saveState call of RunOnce.
IsLoadStep == pc = "load" /\ pc' = "catalog"
IsSaveStep == pc = "save" /\ pc' = "idle"

HasBlob == StateKey \in DOMAIN bucket

\* The ledger a document holds when it decodes without error.
BlobLedger == IF HasBlob THEN Decode(bucket[StateKey], EmptyLedger).m ELSE EmptyLedger

RecipientSet == Getenv(EMAIL_RECIPIENT) # ""

\* ---------------------------------------------------------------- C1

\* C1 (as claimed): in every run, whatever the loads and saves do, two
\* delivered alerts for the same measurement are at least 12 hours apart.
C1_AnyRun ==
    [][(IsNotifyStep /\ outcome'.send = "ok" /\ CurName \in DOMAIN lastDelivered)
         => lastDelivered'[CurName] - lastDelivered[CurName] >= CooldownHours]_vars

\* C1 (amended): as long as every loadState and saveState of the run has
\* returned without error, two delivered alerts for the same measurement are
\* at least 12 hours apart.
C1_WhilePersistenceWorks ==
    [][(IsNotifyStep /\ ~ioFailed /\ outcome'.send = "ok"
          /\ CurName \in DOMAIN lastDelivered)
         => lastDelivered'[CurName] - lastDelivered[CurName] >= CooldownHours]_vars

\* An out-of-range reading of a later cycle falls into the window of a
\* delivered alert that came back from the stored object, and is suppressed.
C1_Witness ==
    /\ pc = "samples"
    /\ ~ioFailed
    /\ RecipientSet
    /\ outcome.result = "Suppressed"
    /\ outcome.prev = "None"
    /\ outcome.name \in DOMAIN lastDelivered
    /\ now - lastDelivered[outcome.name] < CooldownHours
    /\ HasBlob
    /\ BlobLedger = lastEmailSent

\* ---------------------------------------------------------------- C2

\* C2: when a call for a measurement has sent its alert, the next call for
\* it with an out-of-range value less than 12 hours after is Suppressed: no
\* send is attempted and the ledger stays as it is.
C2_SentThenSuppressed ==
    [][(/\ IsNotifyStep
        /\ outcome.result = "Sent"
        /\ outcome.name = CurName
        /\ OutOfRange(outcome'.value, Thr(CurName))
        /\ now - lastEmailSent[CurName] < CooldownHours)
         => (/\ outcome'.result = "Suppressed"
             /\ outcome'.send = "none"
             /\ lastEmailSent' = lastEmailSent)]_vars

C2_Witness ==
    /\ outcome.prev = "Sent"
    /\ outcome.result = "Suppressed"
    /\ RecipientSet
    /\ now - lastEmailSent[outcome.name] < CooldownHours

\* ---------------------------------------------------------------- C3

\* C3: a call with an out-of-range value 12 hours or more after the alert
\* the ledger records, with a recipient configured, attempts a send; when
\* the sender succeeds the result is Sent and the ledger holds the new time.
C3_SentAgainAfterCooldown ==
    [][(/\ IsNotifyStep
        /\ CurName \in DOMAIN lastEmailSent
        /\ OutOfRange(outcome'.value, Thr(CurName))
        /\ now - lastEmailSent[CurName] >= CooldownHours
        /\ RecipientSet)
         => (/\ outcome'.send # "none"
             /\ outcome'.send = "ok" =>
                  (outcome'.result = "Sent" /\ lastEmailSent'[CurName] = now'))]_vars

\* The cycle loaded an alert time from the stored object and has sent the
\* alert again, 12 hours or more after it.
C3_Witness ==
    /\ pc = "samples"
    /\ report.load = "nil"
    /\ outcome.result = "Sent"
    /\ HasBlob
    /\ outcome.name \in DOMAIN BlobLedger
    /\ lastEmailSent[outcome.name] - BlobLedger[outcome.name] >= CooldownHours

\* ---------------------------------------------------------------- C4

\* C4: a failed send leaves the ledger as it was and is a SendFailed; the
\* next call for the same measurement with an out-of-range value attempts
\* a send again, it is not Suppressed.
C4_FailedSendKeepsLedger ==
    [][(IsNotifyStep =>
          /\ outcome'.send = "fail" =>
               (outcome'.result = "SendFailed" /\ lastEmailSent' = lastEmailSent)
          /\ (/\ outcome.result = "SendFailed"
              /\ outcome.name = CurName
              /\ OutOfRange(outcome'.value, Thr(CurName)))
               => (outcome'.send # "none" /\ outcome'.result # "Suppressed"))]_vars

\* Two calls in a row have failed to send.
C4_Witness ==
    /\ outcome.prev = "SendFailed"
    /\ outcome.result = "SendFailed"
    /\ outcome.name \notin DOMAIN lastEmailSent

\* ---------------------------------------------------------------- C5

\* min <= v < max on float64
WithinBounds(value, threshold) ==
    FGeq(value, threshold.min) /\ FLt(value, threshold.max)

IsMeasurement(name) == \E i \in 1..Len(AllMeasurements) : AllMeasurements[i] = name

\* C5 (as claimed): for every measurement and value, the call is NotNeeded
\* if and only if min <= v < max, for the bounds resolved for the measurement.
C5_NotNeededIffWithinBounds ==
    (outcome.result # "None" /\ IsMeasurement(outcome.name))
      => (outcome.result = "NotNeeded"
            <=> WithinBounds(outcome.value, Thr(outcome.name)))

\* C5 (amended): the call is NotNeeded, and then without a send, if and only
\* if the value is not out of range (v >= max or v < min); when neither
\* resolved bound is NaN that is if and only if min <= v < max.
C5_NotNeededIffNotOutOfRange ==
    (outcome.result # "None" /\ IsMeasurement(outcome.name))
      => LET th == Thr(outcome.name)
         IN  /\ outcome.result = "NotNeeded" <=> ~OutOfRange(outcome.value, th)
             /\ outcome.result = "NotNeeded" => outcome.send = "none"
             /\ (~th.min.nan /\ ~th.max.nan)
                  => (outcome.result = "NotNeeded"
                        <=> WithinBounds(outcome.value, th))

\* v = min is in range: the call is NotNeeded.
C5_Witness ==
    /\ outcome.result = "NotNeeded"
    /\ IsMeasurement(outcome.name)
    /\ outcome.value = Thr(outcome.name).min

\* ---------------------------------------------------------------- C6

\* The reading of this call is out of range and falls into the cooldown
\* window of the alert last delivered for its measurement.
InWindowOfDelivered ==
    /\ CurName \in DOMAIN lastDelivered
    /\ now - lastDelivered[CurName] < CooldownHours

\* C6 (as claimed): a cycle that meets an out-of-range reading within the
\* cooldown window of a delivered alert suppresses it, on the Monitor the
\* loop has kept as on a new one that shares only the stored object.
C6_SecondCycleSuppresses ==
    [][(/\ IsNotifyStep
        /\ OutOfRange(outcome'.value, Thr(CurName))
        /\ InWindowOfDelivered)
         => outcome'.result = "Suppressed"]_vars

\* C6 (amended): that holds as long as every loadState and saveState of the
\* run has returned without error; and a loadState that returns without
\* error leaves the same ledger, the one the stored object holds, on a kept
\* Monitor as on a new one; while they all have, that ledger records every
\* delivered alert at the time it was delivered.
C6_SameWhilePersistenceWorks ==
    [][/\ (/\ IsNotifyStep
           /\ ~ioFailed
           /\ OutOfRange(outcome'.value, Thr(CurName))
           /\ InWindowOfDelivered)
            => outcome'.result = "Suppressed"
       /\ (IsLoadStep /\ report'.load = "nil") => lastEmailSent' = BlobLedger
       /\ (IsLoadStep /\ ~ioFailed') => \A n \in DOMAIN lastDelivered :
              n \in DOMAIN lastEmailSent' /\ lastEmailSent'[n] = lastDelivered[n]]_vars

\* A new Monitor suppresses, on the first sample it sees, an alert whose
\* time it has from the stored object.
C6_Witness ==
    /\ pc = "samples"
    /\ report.monitor = "new"
    /\ ~ioFailed
    /\ RecipientSet
    /\ outcome.result = "Suppressed"
    /\ outcome.prev = "None"
    /\ outcome.name \in DOMAIN lastDelivered
    /\ lastEmailSent[outcome.name] = lastDelivered[outcome.name]

\* ---------------------------------------------------------------- C7

\* The stored object is there and does not decode.
CorruptedBlob == HasBlob /\ ~Intact(bucket[StateKey])

\* C7 (as claimed): loadState on a stored object that does not decode
\* returns an error and leaves the ledger as it was before the call.
C7_CorruptedLoadKeepsLedger ==
    [][(IsLoadStep /\ CorruptedBlob)
         => (report'.load # "nil" /\ lastEmailSent' = lastEmailSent)]_vars

\* ---------------------------------------------------------------- C8

\* C8 (as claimed): after a loadState that returned an error the ledger is
\* empty, on a kept Monitor too.
C8_FailedLoadEmptiesLedger ==
    [][(IsLoadStep /\ report'.load # "nil") => lastEmailSent' = EmptyLedger]_vars

\* Every entry of the ledger is a member of the stored object.
FromBlob(ledger) ==
    \A n \in DOMAIN ledger :
      \E i \in 1..Len(bucket[StateKey].members) :
        /\ bucket[StateKey].members[i].k = n
        /\ ParseTime(bucket[StateKey].members[i].v).ok
        /\ ParseTime(bucket[StateKey].members[i].v).t = ledger[n]

\* C8 (amended): after a failed read of the store the ledger is what the
\* Monitor held before the call: empty on a new Monitor, the entries of the
\* earlier cycles on a kept one.  After a failed decoding the earlier
\* entries are gone and the ledger holds members of the stored object only.
C8_FailedLoadLedger ==
    [][/\ (IsLoadStep /\ report'.load = "load") =>
            /\ lastEmailSent' = lastEmailSent
            /\ report.monitor = "new" => lastEmailSent' = EmptyLedger
       /\ (IsLoadStep /\ report'.load = "decode") =>
            /\ CorruptedBlob
            /\ FromBlob(lastEmailSent')]_vars

\* A kept Monitor goes on with its entries after a failed read of the store.
C8_Witness ==
    /\ pc = "catalog"
    /\ report.load = "load"
    /\ report.monitor = "kept"
    /\ lastEmailSent # EmptyLedger

\* ---------------------------------------------------------------- C9

\* C9: saveState on an empty ledger writes nothing and returns nil; on a
\* ledger with entries a write that succeeds leaves one object, under
\* StateKey, from which the whole ledger decodes; a write that fails leaves
\* the bucket as it was.
C9_SaveSkipsEmptyLedger ==
    [][IsSaveStep =>
         /\ lastEmailSent = EmptyLedger =>
              (bucket' = bucket /\ report'.save = "skipped")
         /\ lastEmailSent # EmptyLedger =>
              /\ report'.save \in {"ok", "error"}
              /\ report'.save = "error" => bucket' = bucket
              /\ report'.save = "ok" =>
                   /\ DOMAIN bucket' = {StateKey}
                   /\ Intact(bucket'[StateKey])
                   /\ Decode(bucket'[StateKey], EmptyLedger).m = lastEmailSent]_vars

\* An empty ledger was not written over a stored object with entries.
C9_Witness ==
    /\ pc = "idle"
    /\ report.save = "skipped"
    /\ lastEmailSent = EmptyLedger
    /\ HasBlob
    /\ BlobLedger # EmptyLedger

\* ---------------------------------------------------------------- C10

\* C10: when the store answers that there is no object, loadState returns
\* nil and the ledger is empty, whatever it held before.
C10_AbsentBlobEmptyLedger ==
    [][(IsLoadStep /\ ~HasBlob /\ report'.load # "load")
         => (report'.load = "nil" /\ lastEmailSent' = EmptyLedger)]_vars

\* A kept Monitor that had delivered an alert is empty after loadState
\* found no object.
C10_Witness ==
    /\ pc = "catalog"
    /\ report.load = "nil"
    /\ report.monitor = "kept"
    /\ ~HasBlob
    /\ lastEmailSent = EmptyLedger
    /\ lastDelivered # EmptyLedger

\* ---------------------------------------------------------------- C11

\* C11: RunOnce returns an error if and only if fetchResultID failed; a
\* cycle whose catalog fetch succeeded returns nil, whatever loadState,
\* saveState, the fetchTimeSeriesData calls and the sends of it did.
C11_OnlyCatalogFailureSurfaces ==
    /\ report.ret = "error" <=> report.catalog = "error"
    /\ (pc = "idle" /\ report.catalog = "ok") => report.ret = "nil"

\* A cycle in which loadState, a fetchTimeSeriesData call, a send and
\* saveState have all failed has returned nil.
C11_Witness ==
    /\ report.ret = "nil"
    /\ report.load # "nil"
    /\ report.fetchErrors > 0
    /\ report.sendFailed
    /\ report.save = "error"

\* ---------------------------------------------------------------- C12

\* C12 (as claimed): checkAndNotify for a name without an entry in the
\* defaults never finds a value out of range: the call is NotNeeded, no send
\* is attempted and the ledger gets no entry for the name.
C12_UnknownNameNeverAlerts ==
    /\ OtherName \notin DOMAIN lastEmailSent
    /\ outcome.name = OtherName =>
         (outcome.result = "NotNeeded" /\ outcome.send = "none")

\* ---------------------------------------------------------------- C13

\* C13: in every state a name is a key of the ledger only if an email for
\* it was delivered, and the time the ledger holds for it is the time one of
\* those deliveries completed; a call that has sent leaves the time the
\* delivery completed in the ledger, not the time of the reading.
C13_LedgerHoldsDeliveryTimes ==
    /\ \A n \in DOMAIN lastEmailSent : << n, lastEmailSent[n] >> \in deliveries
    /\ outcome.result = "Sent" =>
         /\ lastEmailSent[outcome.name] = now
         /\ lastEmailSent[outcome.name] # outcome.observedAt

\* A new Monitor holds an entry it has from the stored object, and has
\* sent an alert for another measurement: the ledger holds the time the
\* delivery completed, hours after the call was made.
C13_Witness ==
    /\ report.monitor = "new"
    /\ outcome.result = "Sent"
    /\ lastEmailSent[outcome.name] > outcome.observedAt + 1
    /\ \E n \in DOMAIN lastEmailSent \cap DOMAIN BlobLedger :
         /\ n # outcome.name
         /\ lastEmailSent[n] = BlobLedger[n]
         /\ lastEmailSent[n] < lastEmailSent[outcome.name]

\* ---------------------------------------------------------------- C14

\* The step makes a new Monitor.
IsNewMonitorStep == pc = "idle" /\ pc' = "load" /\ report'.monitor = "new"

\* C14 (as claimed): as long as the Monitor is the same, whatever the loads
\* and saves do, no step removes an entry of the ledger or puts an earlier
\* time into one.
C14_EntriesNeverRemoved ==
    [][~IsNewMonitorStep =>
         \A n \in DOMAIN lastEmailSent :
           n \in DOMAIN lastEmailSent' /\ lastEmailSent'[n] >= lastEmailSent[n]]_vars

\* ---------------------------------------------------------------- C15

\* The ledger holds for the name a time less than 12 hours back.
InCooldownOf(name) ==
    name \in DOMAIN lastEmailSent /\ now - lastEmailSent[name] < CooldownHours

\* C15: a call with an out-of-range value for a measurement that is not in
\* cooldown, in a process without EMAIL_RECIPIENT, is Suppressed: no send is
\* attempted, the ledger and the clock stay as they are, so the measurement
\* is still not in cooldown; the same call in a process with a recipient
\* attempts the send.
C15_NoRecipientNoSideEffect ==
    [][(/\ IsNotifyStep
        /\ OutOfRange(outcome'.value, Thr(CurName))
        /\ ~InCooldownOf(CurName))
         => /\ ~RecipientSet =>
                 /\ outcome'.result = "Suppressed"
                 /\ outcome'.send = "none"
                 /\ lastEmailSent' = lastEmailSent
                 /\ now' = now
                 /\ deliveries' = deliveries
                 /\ ~InCooldownOf(CurName)'
            /\ RecipientSet => outcome'.send # "none"]_vars

\* An alert was suppressed for want of a recipient; the ledger has no entry
\* for the measurement.
C15_Witness ==
    /\ pc = "samples"
    /\ ~RecipientSet
    /\ outcome.result = "Suppressed"
    /\ OutOfRange(outcome.value, Thr(outcome.name))
    /\ outcome.name \notin DOMAIN lastEmailSent

\* ---------------------------------------------------------------- C16

\* The step is a fetchTimeSeriesData call that returns an error.
IsFetchErrorStep == pc = "loop" /\ report'.fetchErrors = report.fetchErrors + 1

\* C16: a fetchTimeSeriesData call that fails is not counted and changes
\* nothing but the position of the loop, which goes on to the next name, or
\* to saveState after the last; the loop is left for saveState only, and
\* when it is, every desired name of the catalog has been fetched: counted
\* as processed, or failed.
C16_FetchFailureSkipsOnlyThat ==
    [][/\ IsFetchErrorStep =>
            /\ successCount' = successCount
            /\ idx' = idx + 1
            /\ pc' = IF idx < Len(desiredMeasurements) THEN "loop" ELSE "save"
            /\ measurements' = measurements
            /\ lastEmailSent' = lastEmailSent
            /\ report'.ret = "none"
       /\ pc \in {"loop", "samples"} => pc' \in {"loop", "samples", "save"}
       /\ pc' = "save" =>
            successCount' + report'.fetchErrors = Cardinality(Desired \cap measurements')
       /\ IsSaveStep => report'.save # "none"]_vars

\* In a cycle one fetch has failed, another measurement was evaluated (a
\* send for it has failed) and counted, and the ledger was saved.
C16_Witness ==
    /\ pc = "idle"
    /\ report.fetchErrors = 1
    /\ successCount = 1
    /\ report.sendFailed
    /\ report.save = "ok"

\* ---------------------------------------------------------------- C17

\* The step is the fetchResultID call of RunOnce, and it fails.
IsCatalogErrorStep == pc = "catalog" /\ report'.catalog = "error"

\* C17: when fetchResultID fails RunOnce returns at once: the ledger, the
\* bucket and the record of the deliveries are as they were, no
\* fetchTimeSeriesData call, no checkAndNotify call and no saveState call
\* was made in the cycle.  The loop of cmd/local can call RunOnce again,
\* and the cycle that follows starts at loadState.
C17_CatalogFailureAbortsCycle ==
    /\ [](report.catalog = "error" =>
            /\ pc = "idle"
            /\ report.ret = "error"
            /\ successCount = 0
            /\ report.fetchErrors = 0
            /\ ~report.sendFailed
            /\ outcome = NoOutcome
            /\ report.save = "none"
            /\ ENABLED ContinuousLoop)
    /\ [][/\ IsCatalogErrorStep =>
               /\ lastEmailSent' = lastEmailSent
               /\ bucket' = bucket
               /\ deliveries' = deliveries
          /\ (report.catalog = "error" /\ pc' # pc) =>
               (pc' = "load" /\ report'.load = "none")]_vars

\* A cycle on the Monitor the loop has kept was aborted: the entries of
\* the Monitor and the stored object are still there.
C17_Witness ==
    /\ pc = "idle"
    /\ report.catalog = "error"
    /\ report.monitor = "kept"
    /\ lastEmailSent # EmptyLedger
    /\ HasBlob

\* ---------------------------------------------------------------- C18

\* The built-in bounds of the seven measurements, by name.
BuiltIn(name) ==
    CASE name = "Water depth" -> [max |-> 1000, min |-> 0]
      [] name = "Temperature" -> [max |-> 26, min |-> 0 - 20]
      [] name = "Electrical conductivity" -> [max |-> 600, min |-> 0]
      [] name = "Turbidity" -> [max |-> 150, min |-> 0]
      [] name = "Battery voltage" -> [max |-> 5, min |-> 0]
      [] name = "Percent full scale" -> [max |-> 101, min |-> 0]
      [] name = "Relative humidity" -> [max |-> 100, min |-> 0]

\* The bound expected for a measurement: what the variable says when it is
\* set to a number, the built-in bound when it is not set or set to
\* something else.
Expected(variable, builtin) ==
    IF variable \notin DOMAIN env THEN F(builtin)
    ELSE CASE env[variable] = "27" -> F(27)
           [] env[variable] = "200" -> F(200)
           [] env[variable] = "NaN" -> NaN
           [] OTHER -> F(builtin)

\* C18: for each of the seven measurements getThresholdFromEnv returns,
\* for each bound on its own, the override <NAME>_MAX / <NAME>_MIN when it
\* is set and parses, the built-in default otherwise; a Turbidity reading of
\* 180 is NotNeeded exactly in the processes with TURBIDITY_MAX=200.
C18_OverrideElseDefault ==
    /\ \A i \in 1..Len(AllMeasurements) :
         LET name == AllMeasurements[i]
         IN  /\ Thr(name).max =
                  Expected(Key(EnvName(name), "MAX"), BuiltIn(name).max)
             /\ Thr(name).min =
                  Expected(Key(EnvName(name), "MIN"), BuiltIn(name).min)
    /\ (outcome.name = "Turbidity" /\ outcome.value = F(180)) =>
         (outcome.result = "NotNeeded"
            <=> (Key("TURBIDITY", "MAX") \in DOMAIN env
                   /\ env[Key("TURBIDITY", "MAX")] = "200"))

\* With TURBIDITY_MAX=200 a Turbidity reading of 180 is NotNeeded.
C18_Witness ==
    /\ outcome.name = "Turbidity"
    /\ outcome.value = F(180)
    /\ outcome.result = "NotNeeded"
    /\ Thr("Turbidity") = ThresholdConfig(F(200), F(0))

\* ---------------------------------------------------------------- C19

\* The steps of RunOnce that may follow one another.
InOrder ==
    { << "idle", "load" >>, << "load", "catalog" >>, << "catalog", "loop" >>,
      << "catalog", "idle" >>, << "loop", "samples" >>, << "samples", "loop" >>,
      << "loop", "save" >>, << "samples", "save" >>, << "save", "idle" >> }

\* C19: in a cycle loadState is called before fetchResultID, fetchResultID
\* has succeeded before any fetchTimeSeriesData or checkAndNotify call, the
\* names are taken one after the other in the order of desiredMeasurements
\* and each call is for the name the loop is on, and saveState is called
\* once, after the last name, in every cycle whose fetchResultID succeeded.
C19_StepsInOrder ==
    /\ [](/\ pc = "load" => (report.load = "none" /\ report.catalog = "none")
          /\ pc = "catalog" => (report.load # "none" /\ report.catalog = "none")
          /\ pc \in {"loop", "samples", "save"} =>
               (report.load # "none" /\ report.catalog = "ok")
          /\ pc \in {"loop", "samples"} => idx \in 1..Len(desiredMeasurements)
          /\ pc = "save" => idx = Len(desiredMeasurements) + 1
          /\ pc \in {"load", "catalog", "loop", "samples", "save"} =>
               report.save = "none"
          /\ (pc = "idle" /\ report.catalog = "ok") => report.save # "none")
    /\ [][/\ pc' # pc => << pc, pc' >> \in InOrder
          /\ pc = "catalog" /\ pc' = "loop" => idx' = 1
          /\ pc \in {"loop", "samples"} => idx' \in {idx, idx + 1}
          /\ IsNotifyStep => outcome'.name = desiredMeasurements[idx]
          /\ pc = "save" => pc' = "idle"]_vars

\* Both measurements were fetched and counted, then the ledger was saved.
C19_Witness ==
    /\ pc = "idle"
    /\ report.load = "nil"
    /\ report.catalog = "ok"
    /\ report.save = "ok"
    /\ successCount = Len(desiredMeasurements)

\* ---------------------------------------------------------------- C20

\* C20: a checkAndNotify call for a name leaves the whole ledger as it is
\* when it is NotNeeded, Suppressed or SendFailed; when it is Sent the
\* ledger has an entry for the name and every other entry is as it was.
C20_OnlySentWritesOwnEntry ==
    [][IsNotifyStep =>
         /\ outcome'.result \in {"NotNeeded", "Suppressed", "SendFailed"} =>
              lastEmailSent' = lastEmailSent
         /\ outcome'.result = "Sent" =>
              /\ CurName \in DOMAIN lastEmailSent'
              /\ DOMAIN lastEmailSent' = DOMAIN lastEmailSent \cup {CurName}
              /\ \A n \in DOMAIN lastEmailSent \ {CurName} :
                   lastEmailSent'[n] = lastEmailSent[n]]_vars

\* An alert was sent for one measurement while the ledger holds the entry
\* of another.
C20_Witness ==
    /\ pc = "samples"
    /\ outcome.result = "Sent"
    /\ DOMAIN lastEmailSent \ {outcome.name} # {}

\* ---------------------------------------------------------------- C21

\* C21: RunOnce changes the stored object by a saveState that succeeds and
\* by nothing else; when the loadState of the cycle has returned without
\* error, the object such a saveState writes holds every name the object
\* before it held, none with an earlier time.
C21_SavedLedgerOnlyGrows ==
    [][/\ (pc # "idle" /\ bucket' # bucket) =>
            (IsSaveStep /\ report'.save = "ok")
       /\ (IsSaveStep /\ report.load = "nil" /\ report'.save = "ok") =>
            \A n \in DOMAIN BlobLedger :
              /\ n \in DOMAIN BlobLedger'
              /\ BlobLedger'[n] >= BlobLedger[n]]_vars

\* A new Monitor has processed one measurement only and has saved an
\* object with two entries: the other one it had from the object before.
C21_Witness ==
    /\ pc = "idle"
    /\ report.monitor = "new"
    /\ report.load = "nil"
    /\ report.save = "ok"
    /\ successCount = 1
    /\ report.fetchErrors = 0
    /\ Cardinality(DOMAIN BlobLedger) = 2
    /\ BlobLedger = lastEmailSent
    /\ \E n \in DOMAIN BlobLedger : BlobLedger[n] = now

====
